---- MODULE Spec2Model ----
(***************************************************************************)
(* Model of the report contract in src/contract/src/lib.rs: a greeting,    *)
(* a map of reports keyed by usize and the owner captured at construction. *)
(* The host runs one call at a time; a call that panics persists nothing.  *)
(***************************************************************************)
EXTENDS Integers, FiniteSets, Sequences, TLC

\* ---------------------------------------------------------------- bounds
\* Keys handled by the model are 0..MaxId; add_report is disabled once the
\* map holds MaxId + 1 reports so that the id it assigns stays in range.
MaxId == 1

Ids == 0 .. MaxId

\* Signer accounts: one of them constructs the contract and becomes owner.
Accounts == {"alice", "bob", "carol"}

DEFAULT_MESSAGE == "Hello"

\* Greetings passed to set_greeting.
Messages == {"Hello", "howdy"}

\* The four text arguments of add_report / update_report, in parameter
\* order: done_today, goal_tomorrow, blocker, word_appreciation.
Inputs ==
  { <<"done today", "goal tomorrow", "blocker", "word appreciation">>,
    <<"updated done today", "updated goal tomorrow", "updated blocker",
      "updated word appreciation">> }

\* get_greeting and get_report take &self and never read the signer.
NoSigner == ""

NoId == -1
NoInput == <<"", "", "", "">>

\* ----------------------------------------------------------------- state
VARIABLES
  message,   \* Contract.message
  reports,   \* Contract.reports : function from the stored keys to Report
  owner,     \* Contract.owner
  call,      \* the last call: operation, signer, arguments and outcome
  prev,      \* message, reports and owner as they were before the last call
  returned   \* ids returned by add_report so far

vars == <<message, reports, owner, call, prev, returned>>

\* ------------------------------------------------------- UnorderedMap use
EmptyMap == [k \in {} |-> NoId]

MapLen(m) == Cardinality(DOMAIN m)

MapInsert(m, k, v) == [x \in (DOMAIN m) \cup {k} |-> IF x = k THEN v ELSE m[x]]

MapRemove(m, k) == [x \in (DOMAIN m) \ {k} |-> m[x]]

MapGet(m, k) ==
  IF k \in DOMAIN m THEN [kind |-> "Some", report |-> m[k]]
                    ELSE [kind |-> "None"]

\* ---------------------------------------------------------------- Report
Report(id, author, input) ==
  [ id                |-> id,
    author            |-> author,
    done_today        |-> input[1],
    goal_tomorrow     |-> input[2],
    blocker           |-> input[3],
    word_appreciation |-> input[4] ]

\* ------------------------------------------------------- call bookkeeping
Snapshot == [message |-> message, reports |-> reports, owner |-> owner]

Call(op, signer, id, input, status, ret) ==
  [op |-> op, signer |-> signer, id |-> id, input |-> input,
   status |-> status, ret |-> ret]

Unit == [kind |-> "unit"]

\* ------------------------------------------------------------------ Init
\* impl Default for Contract
Init ==
  /\ message = DEFAULT_MESSAGE
  /\ reports = EmptyMap
  /\ owner \in Accounts
  /\ call = Call("default", owner, NoId, NoInput, "ok", Unit)
  /\ prev = [message |-> DEFAULT_MESSAGE, reports |-> EmptyMap, owner |-> owner]
  /\ returned = {}

\* --------------------------------------------------------------- actions
get_greeting ==
  /\ call' = Call("get_greeting", NoSigner, NoId, NoInput, "ok",
                  [kind |-> "string", text |-> message])
  /\ prev' = Snapshot
  /\ UNCHANGED <<message, reports, owner, returned>>

set_greeting_ownerOnly(signer, msg) ==
  /\ message' = IF signer = owner THEN msg ELSE message
  /\ call' = Call("set_greeting", signer, NoId, NoInput, "ok",
                  [kind |-> "unit", log |-> msg])
  /\ prev' = Snapshot
  /\ UNCHANGED <<reports, owner, returned>>

set_greeting(signer, msg) ==
  /\ message' = msg
  /\ call' = Call("set_greeting", signer, NoId, NoInput, "ok",
                  [kind |-> "unit", log |-> msg])
  /\ prev' = Snapshot
  /\ UNCHANGED <<reports, owner, returned>>

\* id: self.reports.len() as usize
NewReportId_plus1(m) == MapLen(m) + 1

NewReportId(m) == MapLen(m)

\* let report = Report { id: len, author: signer, ... } in add_report
NewReport_swapped(m, signer, input) ==
  Report(NewReportId(m), signer, <<input[1], input[3], input[2], input[4]>>)

NewReport(m, signer, input) == Report(NewReportId(m), signer, input)

add_report_setsMessage(signer, input) ==
  /\ MapLen(reports) <= MaxId
  /\ LET report == NewReport(reports, signer, input) IN
       /\ reports' = MapInsert(reports, report.id, report)
       /\ call' = Call("add_report", signer, NoId, input, "ok",
                       [kind |-> "id", id |-> report.id])
       /\ returned' = returned \cup {report.id}
  /\ prev' = Snapshot
  /\ message' = DEFAULT_MESSAGE
  /\ UNCHANGED owner

add_report(signer, input) ==
  /\ MapLen(reports) <= MaxId
  /\ LET report == NewReport(reports, signer, input) IN
       /\ reports' = MapInsert(reports, report.id, report)
       /\ call' = Call("add_report", signer, NoId, input, "ok",
                       [kind |-> "id", id |-> report.id])
       /\ returned' = returned \cup {report.id}
  /\ prev' = Snapshot
  /\ UNCHANGED <<message, owner>>

\* self.reports.get(&id).unwrap()
GetReportOutcome_default(m, id) ==
  IF MapGet(m, id).kind = "Some"
    THEN [status |-> "ok", ret |-> [kind |-> "report", report |-> MapGet(m, id).report]]
    ELSE [status |-> "ok", ret |-> [kind |-> "report", report |-> Report(0, "", NoInput)]]

GetReportOutcome(m, id) ==
  IF MapGet(m, id).kind = "Some"
    THEN [status |-> "ok", ret |-> [kind |-> "report", report |-> MapGet(m, id).report]]
    ELSE [status |-> "NotFound", ret |-> Unit]

get_report(id) ==
  /\ call' = Call("get_report", NoSigner, id, NoInput,
                  GetReportOutcome(reports, id).status,
                  GetReportOutcome(reports, id).ret)
  /\ prev' = Snapshot
  /\ UNCHANGED <<message, reports, owner, returned>>

\* let report = Report { id, author: signer, ... } in update_report
UpdatedReport_lenId(id, signer, input) == Report(MapLen(reports), signer, input)

UpdatedReport_keepAuthor(id, signer, input) ==
  Report(id, IF id \in DOMAIN reports THEN reports[id].author ELSE signer, input)

UpdatedReport(id, signer, input) == Report(id, signer, input)

update_report_ifPresent(signer, id, input) ==
  /\ reports' = IF id \in DOMAIN reports
                  THEN MapInsert(reports, id, UpdatedReport(id, signer, input))
                  ELSE reports
  /\ call' = Call("update_report", signer, id, input, "ok", Unit)
  /\ prev' = Snapshot
  /\ UNCHANGED <<message, owner, returned>>

update_report_restampOwner(signer, id, input) ==
  /\ reports' = MapInsert(reports, id, UpdatedReport(id, signer, input))
  /\ owner' = signer
  /\ call' = Call("update_report", signer, id, input, "ok", Unit)
  /\ prev' = Snapshot
  /\ UNCHANGED <<message, returned>>

update_report(signer, id, input) ==
  /\ reports' = MapInsert(reports, id, UpdatedReport(id, signer, input))
  /\ call' = Call("update_report", signer, id, input, "ok", Unit)
  /\ prev' = Snapshot
  /\ UNCHANGED <<message, owner, returned>>

\* assert_eq!(user, self.owner, "Only author can delete post")
DeleteAllowed_anyone(user) == TRUE

DeleteAllowed_notOwner(user) == user # owner

DeleteAllowed(user) == user = owner

delete_report_noRemove(user, id) ==
  /\ IF DeleteAllowed(user)
       THEN /\ reports' = reports
            /\ call' = Call("delete_report", user, id, NoInput, "ok", Unit)
       ELSE /\ reports' = reports
            /\ call' = Call("delete_report", user, id, NoInput,
                            "PermissionDenied", Unit)
  /\ prev' = Snapshot
  /\ UNCHANGED <<message, owner, returned>>

delete_report(user, id) ==
  /\ IF DeleteAllowed(user)
       THEN /\ reports' = MapRemove(reports, id)
            /\ call' = Call("delete_report", user, id, NoInput, "ok", Unit)
       ELSE /\ reports' = reports
            /\ call' = Call("delete_report", user, id, NoInput,
                            "PermissionDenied", Unit)
  /\ prev' = Snapshot
  /\ UNCHANGED <<message, owner, returned>>

Next ==
  \/ get_greeting
  \/ \E s \in Accounts, m \in Messages : set_greeting(s, m)
  \/ \E s \in Accounts, i \in Inputs : add_report(s, i)
  \/ \E id \in Ids : get_report(id)
  \/ \E s \in Accounts, id \in Ids, i \in Inputs : update_report(s, id, i)
  \/ \E s \in Accounts, id \in Ids : delete_report(s, id)

Spec == Init /\ [][Next]_vars

TypeOK ==
  /\ message \in Messages
  /\ owner \in Accounts
  /\ DOMAIN reports \subseteq Ids
  /\ returned \subseteq Ids
\* ---------------------------------------------------------------- claims
\* What get_report returns for a stored report r.
Found(r) == [status |-> "ok", ret |-> [kind |-> "report", report |-> r]]

IsAdd == call.op = "add_report"
IsUpdate == call.op = "update_report"
IsDelete == call.op = "delete_report"
IsGet == call.op = "get_report"

Unchanged ==
  /\ reports = prev.reports
  /\ message = prev.message
  /\ owner = prev.owner

\* C1: the id returned by add_report was not a key of the report mapping
\* immediately before that call.
C1_AddReturnsFreshId == IsAdd => call.ret.id \notin DOMAIN prev.reports

C4_AddThenGet ==
  IsAdd =>
    GetReportOutcome(reports, call.ret.id) =
      Found([ id                |-> call.ret.id,
              author            |-> call.signer,
              done_today        |-> call.input[1],
              goal_tomorrow     |-> call.input[2],
              blocker           |-> call.input[3],
              word_appreciation |-> call.input[4] ])

C4_AddedByNonOwner ==
  /\ IsAdd
  /\ call.signer # owner
  /\ prev.reports # EmptyMap
  /\ call.ret.id \in DOMAIN reports

\* C5: every key present in the report mapping equals the id field of the
\* record stored under it.
C5_KeyEqualsId == \A k \in DOMAIN reports : reports[k].id = k

C5_UpdateInsertedAboveLen ==
  /\ IsUpdate
  /\ call.id \notin DOMAIN prev.reports
  /\ call.id > Cardinality(DOMAIN prev.reports)
  /\ call.id \in DOMAIN reports

\* C6: an id returned by add_report is never returned again by a later
\* add_report on the same store, even after the record with that id has been
\* deleted.
C6_IdNeverReturnedAgain ==
  [][(call'.op = "add_report") => (call'.ret.id \notin returned)]_vars

\* C7: for an id present in the mapping and any caller c (owner, original
\* author or neither), update_report(id, a', b', c', d') by c succeeds and a
\* following get_report(id) returns a record with id unchanged, the four new
\* field values and author c rather than the original creator.
C7_UpdateExisting ==
  (IsUpdate /\ call.id \in DOMAIN prev.reports) =>
     /\ call.status = "ok"
     /\ GetReportOutcome(reports, call.id) =
          Found([ id                |-> prev.reports[call.id].id,
                  author            |-> call.signer,
                  done_today        |-> call.input[1],
                  goal_tomorrow     |-> call.input[2],
                  blocker           |-> call.input[3],
                  word_appreciation |-> call.input[4] ])

C7_UpdatedByThirdParty ==
  /\ IsUpdate
  /\ call.id \in DOMAIN prev.reports
  /\ call.signer # owner
  /\ call.signer # prev.reports[call.id].author
  /\ prev.reports[call.id].done_today # call.input[1]
  /\ reports[call.id].author = call.signer

\* C8: update_report never fails and performs no existence check: called
\* with an id absent from the mapping, by any caller, it inserts a new record
\* under that id with author = caller, so the number of stored reports grows
\* by one and get_report(id) then succeeds.
C8_UpdateAbsentInserts ==
  IsUpdate =>
    /\ call.status = "ok"
    /\ call.id \notin DOMAIN prev.reports =>
         /\ Cardinality(DOMAIN reports) = Cardinality(DOMAIN prev.reports) + 1
         /\ GetReportOutcome(reports, call.id).status = "ok"
         /\ GetReportOutcome(reports, call.id).ret.report.author = call.signer

C8_InsertedByNonOwner ==
  /\ IsUpdate
  /\ call.id \notin DOMAIN prev.reports
  /\ call.signer # owner
  /\ call.status = "ok"
  /\ Cardinality(DOMAIN reports) = 2

\* C9: get_report(id) fails with NotFound exactly when no record is stored
\* under id in the current state (in particular for an id never written and
\* for an id whose record the owner deleted), and the call, failing or not,
\* leaves the mapping, greeting and owner unchanged.
C9_GetNotFoundIffAbsent ==
  IsGet =>
    /\ (call.status = "NotFound") <=> (call.id \notin DOMAIN reports)
    /\ (call.status = "ok") <=> (call.id \in DOMAIN reports)
    /\ call.status = "ok" => call.ret = Found(reports[call.id]).ret
    /\ Unchanged

C9_NotFoundAfterDelete ==
  /\ IsGet
  /\ call.status = "NotFound"
  /\ call.id \in returned
  /\ reports # EmptyMap

\* C10: add_report returns the number of reports stored immediately before
\* the call; the first add_report on a freshly constructed store returns 0.
C10_AddReturnsLen ==
  IsAdd =>
    /\ call.ret.id = Cardinality(DOMAIN prev.reports)
    /\ prev.reports = EmptyMap => call.ret.id = 0

C10_AddedToNonEmpty ==
  /\ IsAdd
  /\ call.ret.id = 1
  /\ 0 \notin DOMAIN prev.reports

\* C11: every add_report call increases the number of stored reports by
\* exactly one.
C11_AddGrowsByOne ==
  IsAdd => Cardinality(DOMAIN reports) = Cardinality(DOMAIN prev.reports) + 1

\* C12: the owner is the identity that constructed the store and never
\* changes: after any sequence of calls by any callers, successful or
\* failed, owner equals its value at construction.
C12_OwnerNeverChanges ==
  /\ call.op = "default" /\ owner = call.signer
  /\ [][owner' = owner]_vars

C12_NonOwnerActed ==
  /\ call.op \in {"update_report", "set_greeting", "add_report"}
  /\ call.signer # owner
  /\ reports # EmptyMap
  /\ message # DEFAULT_MESSAGE

\* C13: get_greeting returns the message of the most recent set_greeting
\* call made by any caller (no ownership check), or the default "Hello" if
\* set_greeting was never called, whatever report calls come in between:
\* the greeting starts as the default, a set_greeting call by any signer
\* makes it the message passed, no other call changes it, and get_greeting
\* returns it.
C13_GreetingIsLastSet ==
  /\ message = DEFAULT_MESSAGE
  /\ [][ /\ call'.op = "set_greeting" => message' = call'.ret.log
         /\ call'.op # "set_greeting" => message' = message
         /\ call'.op = "get_greeting" => call'.ret.text = message ]_vars

C13_GotSetGreeting ==
  /\ call.op = "get_greeting"
  /\ call.ret.text = "howdy"
  /\ call.ret.text # DEFAULT_MESSAGE
  /\ reports # EmptyMap

\* C14: add_report never overwrites an existing record: every record that
\* was retrievable immediately before an add_report call is retrievable with
\* the same author and the same four text fields immediately after it.
C14_AddKeepsRecords ==
  IsAdd =>
    \A k \in DOMAIN prev.reports :
      /\ GetReportOutcome(reports, k).status = "ok"
      /\ GetReportOutcome(reports, k) = Found(prev.reports[k])

C16_GreetingReportsIndependent ==
  /\ call.op = "set_greeting" =>
       (reports = prev.reports /\ owner = prev.owner)
  /\ call.op \in {"add_report", "update_report", "delete_report"} =>
       message = prev.message
  /\ call.op \in {"get_greeting", "get_report"} => Unchanged

C16_AddAfterSetGreeting ==
  /\ IsAdd
  /\ message # DEFAULT_MESSAGE
  /\ reports # prev.reports
====
